---- MODULE Spec2Model ----
(***************************************************************************)
(* On-type rename ("linked editing") of src/vs/editor/contrib/rename/      *)
(* onTypeRename.ts: the OnTypeRenameContribution controller and the        *)
(* getOnTypeRenameRanges resolver.                                         *)
(*                                                                         *)
(* The document is a sequence of lines, a line a sequence of characters;   *)
(* lines and columns are 1-based as in the editor, offsets 0-based with    *)
(* one character per line break.  A range is [sl, sc, el, ec].             *)
(***************************************************************************)
EXTENDS Integers, Sequences, FiniteSets, TLC

\* ------------------------------------------------------------- bounds
\* user content-change events per behaviour
MaxEdits == 1
\* user content-change events per behaviour of an editing session (SpecEdit)
MaxTyped == 2
\* providers in a run of the resolver command (SpecResolver)
MaxCmdProviders == 3
\* resolutions started per behaviour
MaxRequests == 2
\* registered providers
MaxProviders == 1
\* registered providers while resolutions are cancelled (SpecCancel)
MaxAwaited == 2

\* ------------------------------------------------------------- text buffer

Min(a, b) == IF a <= b THEN a ELSE b
Max(a, b) == IF a >= b THEN a ELSE b

Rng(sl, sc, el, ec) == [sl |-> sl, sc |-> sc, el |-> el, ec |-> ec]

\* The text of every fresh model: "aa-a" / "a".
InitialDoc == << <<"a", "a", "-", "a">>, <<"a">> >>

\* ITextModel.validatePosition: clamp the line, then the column.
validatePosition(d, l, c) ==
    LET vl == Max(1, Min(l, Len(d)))
    IN  [l |-> vl, c |-> Max(1, Min(c, Len(d[vl]) + 1))]

RECURSIVE LineStart(_, _)
\* offset of column 1 of line l
LineStart(d, l) == IF l <= 1 THEN 0 ELSE LineStart(d, l - 1) + Len(d[l - 1]) + 1

\* ITextModel.getOffsetAt(position): validates, then counts characters.
getOffsetAt(d, l, c) ==
    LET p == validatePosition(d, l, c) IN LineStart(d, p.l) + p.c - 1

\* the text of line l with columns [c1, c2) replaced by t
ReplaceIn(d, l, c1, c2, t) ==
    [d EXCEPT ![l] = SubSeq(@, 1, c1 - 1) \o t \o SubSeq(@, c2, Len(@))]

\* One IModelContentChange: the replaced range (pre-edit coordinates, on one
\* line), its offset and length, and the replacement text.
Change(d, l, c1, c2, t) ==
    [range |-> Rng(l, c1, l, c2), rangeOffset |-> getOffsetAt(d, l, c1),
     rangeLength |-> c2 - c1, text |-> t]

ApplyChange(d, ch) == ReplaceIn(d, ch.range.sl, ch.range.sc, ch.range.ec, ch.text)

\* the text a single-line range covers
TextOf(d, r) ==
    IF r.sl = r.el /\ r.sl >= 1 /\ r.sl <= Len(d) /\ r.sc <= r.ec
       /\ r.sc >= 1 /\ r.ec <= Len(d[r.sl]) + 1
    THEN SubSeq(d[r.sl], r.sc, r.ec - 1)
    ELSE <<>>

\* ------------------------------------------------------------- isWithin

isWithin(inner, outer) ==
    /\ outer.sl <= inner.sl
    /\ outer.el >= inner.el
    /\ outer.sc <= inner.sc
    /\ outer.ec >= inner.ec

\* ------------------------------------------------------------- content changes

\* ShouldMirror without the test of line 86: a change that removes text counts
MirrorsRemovals(changes, synced) ==
    /\ Len(changes) = 1
    /\ Len(synced) > 0
    /\ isWithin(changes[1].range, synced[1])

\* Lines 84-88: the event is mirrored only when it holds one change, the change
\* removes nothing, a range set is recorded and non-empty, and the change's
\* range is within the first recorded range.
ShouldMirror(changes, synced) ==
    /\ Len(changes) = 1
    /\ changes[1].rangeLength = 0
    /\ Len(synced) > 0
    /\ isWithin(changes[1].range, synced[1])

\* Lines 89-98: the collapsed target range in the second recorded range, as
\* executeEdits validates it against the buffer d (the buffer after the change).
targetRange(d, change, synced) ==
    LET firstStartOffset == getOffsetAt(d, synced[1].sl, synced[1].sc)
        column == synced[2].sc + (change.rangeOffset - firstStartOffset)
    IN  validatePosition(d, synced[2].sl, column)

RECURSIVE onDidChangeModelContent(_, _, _)
\* Lines 76-113, run on the buffer d that already holds `changes`.  The edit
\* of lines 100-105 raises the same event synchronously, so the handler
\* re-enters itself with its own change.  Reading _syncedRanges[1] of a
\* one-element array (line 94) throws a TypeError.
\* Result: the buffer, the changes the controller applied, whether it threw.
onDidChangeModelContent(d, changes, synced) ==
    IF ~ShouldMirror(changes, synced)
    THEN [doc |-> d, applied |-> <<>>, threw |-> FALSE]
    ELSE IF Len(synced) < 2
    THEN [doc |-> d, applied |-> <<>>, threw |-> TRUE]
    ELSE LET t    == targetRange(d, changes[1], synced)
             own  == Change(d, t.l, t.c, t.c, changes[1].text)
             rest == onDidChangeModelContent(ApplyChange(d, own), <<own>>, synced)
         IN  [doc |-> rest.doc, applied |-> <<own>> \o rest.applied,
              threw |-> rest.threw]

\* ------------------------------------------------------------- decorations

\* Where the editor moves a column of a line when columns [c1, c2) are removed.
AfterRemoval(x, c1, c2) == IF x <= c1 THEN x ELSE IF x <= c2 THEN c1 ELSE x - (c2 - c1)

\* The editor's tracking of one decoration range across one change, with the
\* stickiness of line 34 (AlwaysGrowsWhenTypingAtEdges): text typed at either
\* edge becomes part of the range.
TrackRange(r, ch) ==
    LET m == Len(ch.text)
        p == ch.range.sc
        s == IF r.sl # ch.range.sl THEN r.sc
             ELSE LET x == AfterRemoval(r.sc, ch.range.sc, ch.range.ec)
                  IN  IF p < x THEN x + m ELSE x
        e == IF r.el # ch.range.sl THEN r.ec
             ELSE LET x == AfterRemoval(r.ec, ch.range.sc, ch.range.ec)
                  IN  IF p <= x THEN x + m ELSE x
    IN  Rng(r.sl, s, r.el, e)

RECURSIVE TrackAll(_, _)
\* the decoration ranges after a sequence of changes, applied in order
TrackAll(decos, chs) ==
    IF chs = <<>> THEN decos
    ELSE TrackAll([i \in 1..Len(decos) |-> TrackRange(decos[i], Head(chs))], Tail(chs))

\* model.validateRange, as deltaDecorations applies it to a new decoration
validateRange(d, r) ==
    LET s == validatePosition(d, r.sl, r.sc)
        e == validatePosition(d, r.el, r.ec)
    IN  Rng(s.l, s.c, e.l, e.c)

\* ------------------------------------------------------------- resolver

\* What a provider hands back: no result (null or undefined), an array of
\* ranges (possibly empty), or a rejected promise.
NoResult == [kind |-> "none", ranges |-> <<>>]
Ranges(rs) == [kind |-> "ranges", ranges |-> rs]
Rejection == [kind |-> "reject", ranges |-> <<>>]

A1 == Rng(1, 1, 1, 2)
A2 == Rng(1, 2, 1, 3)
A4 == Rng(1, 4, 1, 5)
B1 == Rng(2, 1, 2, 2)
AB == Rng(1, 4, 2, 2)

\* The range arrays the providers answer with: the mirror on another line, on
\* the same line after and before the primary, adjacent to it, a single range,
\* three ranges, a primary that spans the line break.
RangeSets ==
    { <<A1, B1>>, <<A1, A4>>, <<A4, A1>>, <<A1, A2>>, <<A2, A1>>, <<A1>>,
      <<A1, A4, B1>>, <<AB, A1>> }

Outcomes == {NoResult, Ranges(<<>>), Rejection} \cup {Ranges(rs) : rs \in RangeSets}

\* the answers the providers give in Spec, where the ranges' places matter less
FewOutcomes == {NoResult, Ranges(<<>>), Ranges(<<A1, B1>>)}

\* arrays.isNonEmptyArray, the shouldStop predicate of line 163
isNonEmptyArray(v) == v.kind = "ranges" /\ Len(v.ranges) > 0

\* first()'s default shouldStop, t => !!t: an empty array is truthy
stopsOnTruthy(v) == v.kind = "ranges"

\* Line 163: the shouldStop predicate getOnTypeRenameRanges gives first()
shouldStop(v) == isNonEmptyArray(v)

\* Lines 161-162: the value the factory's promise settles with.  A rejection
\* goes to onUnexpectedExternalError, which returns undefined.
FactoryValue(outcome) == IF outcome.kind = "reject" THEN NoResult ELSE outcome

\* Lines 161-162: the errors the factory reports to the external error sink.
FactoryReports(outcome) == IF outcome.kind = "reject" THEN 1 ELSE 0

\* One run of getOnTypeRenameRanges: n providers in score order, `calls` the
\* providers invoked so far in order, `reported` the errors sent to the sink.
\*   phase "start"    before the first provider is called
\*   phase "await"    the promise of provider Len(calls) is pending
\*         "resolved" the run resolved with `value`
\*         "rejected" the run's promise rejected
\*         "threw"    the call of getOnTypeRenameRanges itself threw
NewRun(n) ==
    [n |-> n, calls |-> <<>>, reported |-> 0, phase |-> "start", value |-> NoResult]

\* first()'s loop: past the last factory it resolves with the default (null),
\* else it calls the next factory.  The call of line 161 evaluates
\* provider.provideOnTypeRenameRanges(...) before any promise exists: a
\* provider that throws there (throws) throws out of the factory.  From the
\* first, synchronous, turn of the loop that is a throw of
\* getOnTypeRenameRanges; from a later turn, inside a then-callback, a
\* rejection.
FirstLoop(run, throws) ==
    IF Len(run.calls) >= run.n
    THEN [run EXCEPT !.phase = "resolved", !.value = NoResult]
    ELSE LET called == [run EXCEPT !.calls = Append(@, Len(@) + 1)]
         IN  IF ~throws THEN [called EXCEPT !.phase = "await"]
             ELSE IF run.phase = "start" THEN [called EXCEPT !.phase = "threw"]
             ELSE [called EXCEPT !.phase = "rejected"]

\* Lines 153-164, up to the first await.
getOnTypeRenameRanges(n, throws) == FirstLoop(NewRun(n), throws)

\* The awaited provider settles with `outcome`: the factory's handlers run
\* (lines 161-162), then first()'s: stop on a non-empty array, else loop.
ProviderSettled(run, outcome, throwsNext) ==
    LET v    == FactoryValue(outcome)
        seen == [run EXCEPT !.reported = @ + FactoryReports(outcome)]
    IN  IF shouldStop(v)
        THEN [seen EXCEPT !.phase = "resolved", !.value = v]
        ELSE FirstLoop(seen, throwsNext)

\* ------------------------------------------------------------- controller state

VARIABLES
    doc,                \* the text of the editor's model (<<>> without a model)
    hasModel,           \* _editor.hasModel()
    enabled,            \* _enabled
    disposed,           \* dispose() has run
    numProviders,       \* the providers OnTypeRenameProviderRegistry.ordered returns
    currentRequest,     \* _currentRequest: a request id, 0 for null
    requests,           \* every CancelablePromise _run created, by id
    syncedRanges,       \* _syncedRanges; undefined reads as the empty array
    currentDecorations, \* _currentDecorations, each handle as the range the editor tracks for it
    nEdits,             \* user content-change events so far
    last,               \* the event handled last and what its handler did
    appliedBy,          \* the request whose result lines 147-148 wrote last, 0 for none
    lockstep,           \* only single characters typed inside the primary since the ranges were recorded
    cmd                 \* a run of the _executeRenameOnTypeProvider command (line 166)

vars ==
    <<doc, hasModel, enabled, disposed, numProviders, currentRequest,
      requests, syncedRanges, currentDecorations, nEdits, last, appliedBy,
      lockstep, cmd>>

\* what the user types or pastes
Texts == { <<"x">>, <<"y", "z">> }

\* A request: the state of its CancelablePromise, the run behind it, whether
\* it was started against the model the editor has now (current), whether a
\* later resolution was started while it was pending (superseded).
Unused == [st |-> "unused", current |-> FALSE, superseded |-> FALSE, run |-> NewRun(0)]

Event(kind) == [kind |-> kind, changes |-> <<>>, applied |-> <<>>, threw |-> FALSE]

Init ==
    /\ hasModel \in BOOLEAN
    /\ doc = IF hasModel THEN InitialDoc ELSE <<>>
    /\ enabled \in BOOLEAN
    /\ disposed = FALSE
    /\ numProviders \in 0..MaxProviders
    /\ currentRequest = 0
    /\ requests = [id \in 1..MaxRequests |-> Unused]
    /\ syncedRanges = <<>>
    /\ currentDecorations = <<>>
    /\ nEdits = 0
    /\ last = Event("init")
    /\ appliedBy = 0
    /\ lockstep = FALSE
    /\ cmd = [run |-> NewRun(0), results |-> <<>>]

Started == {id \in 1..MaxRequests : requests[id].st # "unused"}
NextId == Cardinality(Started) + 1

\* ------------------------------------------------------------- _stopAll, _run

\* Lines 121-123: the handles deltaDecorations(_currentDecorations, []) returns.
stopAll == <<>>

\* _run without lines 133-136: the request in the slot is left running
KeepCurrent(reqs, cur) == reqs

\* Lines 133-136: cancel() rejects a pending CancelablePromise with a
\* cancellation error, so its fulfilment callback (lines 142-148) never runs;
\* on a settled one it does nothing.
CancelCurrent(reqs, cur) ==
    [id \in 1..MaxRequests |->
        IF id = cur /\ reqs[id].st = "pending"
        THEN [reqs[id] EXCEPT !.st = "canceled"] ELSE reqs[id]]

\* Lines 125-150 with _enabled = en, an editor with a model or not (its
\* position is null exactly when it has none) and n providers registered: the new
\* <<_currentRequest, requests>>.  A provider that throws when line 140 calls
\* it (throws) makes _run throw after line 135 and before line 140 assigns.
run(en, model, n, throws, reqs, cur) ==
    IF ~en \/ ~model THEN <<cur, reqs>>
    ELSE LET cancelled == CancelCurrent(reqs, cur)
             r == getOnTypeRenameRanges(n, throws)
             id == NextId
             marked == [i \in 1..MaxRequests |->
                          IF reqs[i].st = "pending"
                          THEN [cancelled[i] EXCEPT !.superseded = TRUE]
                          ELSE cancelled[i]]
         IN  IF r.phase = "threw" THEN <<0, cancelled>>
             ELSE <<id, [marked EXCEPT ![id] =
                            [st |-> "pending", current |-> TRUE,
                             superseded |-> FALSE, run |-> r]]>>

\* whether _run would create a request, and with which first call
WouldStart(en, model) == en /\ model
ThrowChoices(en, model, n) == IF WouldStart(en, model) /\ n > 0 THEN BOOLEAN ELSE {FALSE}
RoomFor(en, model, throws) == WouldStart(en, model) /\ ~throws => NextId <= MaxRequests

\* ------------------------------------------------------------- events

\* the part of a handler that ends in _run: the request slot and the request
\* table after it, and the record of the event
RunsAfter(kind, en, model, n, throws, reqs) ==
    LET res == run(en, model, n, throws, reqs, currentRequest)
    IN  /\ RoomFor(en, model, throws)
        /\ currentRequest' = res[1]
        /\ requests' = res[2]
        /\ last' = Event(kind)

\* Lines 55-58: the editor is given another model (a fresh one, or none).
ChangeModel(fresh) ==
    /\ ~disposed
    /\ fresh \/ hasModel
    /\ hasModel' = fresh
    /\ doc' = IF fresh THEN InitialDoc ELSE <<>>
    /\ currentDecorations' = stopAll
    /\ lockstep' = FALSE
    /\ \E throws \in ThrowChoices(enabled, fresh, numProviders) :
          RunsAfter("model", enabled, fresh, numProviders, throws,
                    [id \in 1..MaxRequests |-> [requests[id] EXCEPT !.current = FALSE]])
    /\ UNCHANGED <<enabled, disposed, numProviders, syncedRanges, nEdits, appliedBy, cmd>>

\* Lines 60-66: the autoRename option changes.
ChangeConfiguration ==
    /\ ~disposed
    /\ enabled' = ~enabled
    /\ currentDecorations' = stopAll
    /\ lockstep' = FALSE
    /\ \E throws \in ThrowChoices(~enabled, hasModel, numProviders) :
          RunsAfter("config", ~enabled, hasModel, numProviders, throws, requests)
    /\ UNCHANGED <<doc, hasModel, disposed, numProviders, syncedRanges,
                   nEdits, appliedBy, cmd>>

\* Lines 68-70: the cursor moves (the editor has a model and a position).
ChangeCursorPosition ==
    /\ ~disposed
    /\ hasModel
    /\ \E throws \in ThrowChoices(enabled, hasModel, numProviders) :
          RunsAfter("cursor", enabled, hasModel, numProviders, throws, requests)
    /\ UNCHANGED <<doc, hasModel, enabled, disposed, numProviders,
                   syncedRanges, currentDecorations, nEdits, appliedBy, lockstep, cmd>>

\* Lines 72-74: a provider is registered or unregistered.
ChangeRegistry(n) ==
    /\ ~disposed
    /\ n # numProviders
    /\ numProviders' = n
    /\ \E throws \in ThrowChoices(enabled, hasModel, n) :
          RunsAfter("registry", enabled, hasModel, n, throws, requests)
    /\ UNCHANGED <<doc, hasModel, enabled, disposed, syncedRanges,
                   currentDecorations, nEdits, appliedBy, lockstep, cmd>>

\* Lines 116-119.  The editor may be disposed with the contribution (its model
\* detached) or live on.
Dispose(detach) ==
    /\ ~disposed
    /\ disposed' = TRUE
    /\ currentDecorations' = stopAll
    /\ lockstep' = FALSE
    /\ hasModel' = (hasModel /\ ~detach)
    /\ doc' = IF hasModel /\ ~detach THEN doc ELSE <<>>
    /\ last' = Event("dispose")
    /\ UNCHANGED <<enabled, numProviders, currentRequest, requests,
                   syncedRanges, nEdits, appliedBy, cmd>>

\* The content-change events a user causes on buffer d, each a sequence of
\* changes in the order the editor reports them (last position first):
\* one insertion, one removal or replacement of a character, or two insertions
\* typed with two cursors.
Columns == 1..(Len(InitialDoc[1]) + MaxTyped + 1)

Insertions(d) ==
    { <<Change(d, 1, c, c, t)>> : c \in Columns, t \in Texts }
    \cup { <<Change(d, 2, 1, 1, <<"x">>)>> }

Removals(d) ==
    { <<Change(d, 1, c, c + 1, <<>>)>> : c \in Columns }
    \cup { <<Change(d, 1, 1, 2, <<"x">>)>> }

TwoCursors(d) ==
    { <<Change(d, 2, 1, 1, <<"x">>), Change(d, 1, 2, 2, <<"x">>)>> }

InBuffer(d, ch) == ch.range.ec <= Len(d[ch.range.sl]) + 1

UserEvents(d) ==
    IF Len(d) < 2 THEN {}
    ELSE {e \in Insertions(d) \cup Removals(d) \cup TwoCursors(d) :
            \A i \in 1..Len(e) : InBuffer(d, e[i])}

\* two of them: typing at the start of the first line, removing its first
\* character
KeyEvents(d) ==
    IF Len(d) < 2 THEN {}
    ELSE {e \in UserEvents(d) :
            Len(e) = 1 /\ e[1].range.sl = 1 /\ e[1].range.sc = 1 /\ e[1].text \in {<<>>, <<"x">>}}

RECURSIVE ApplyChanges(_, _)
ApplyChanges(d, chs) ==
    IF chs = <<>> THEN d ELSE ApplyChanges(ApplyChange(d, Head(chs)), Tail(chs))

\* a single typed character that lands inside range r (its edges included)
TypedInside(changes, r) ==
    /\ Len(changes) = 1
    /\ changes[1].rangeLength = 0
    /\ Len(changes[1].text) = 1
    /\ changes[1].range.sl = r.sl
    /\ r.sc <= changes[1].range.sc
    /\ changes[1].range.sc <= r.ec

\* Lines 76-113: the user changes the buffer and the handler runs on the result.
ChangeModelContent(changes) ==
    /\ ~disposed
    /\ hasModel
    /\ LET h == onDidChangeModelContent(ApplyChanges(doc, changes), changes, syncedRanges)
       IN  /\ doc' = h.doc
           /\ currentDecorations' = TrackAll(currentDecorations, changes \o h.applied)
           /\ last' = [Event("edit") EXCEPT
                         !.changes = changes, !.applied = h.applied, !.threw = h.threw]
    /\ nEdits' = nEdits + 1
    /\ lockstep' = (lockstep /\ TypedInside(changes, currentDecorations[1]))
    /\ UNCHANGED <<hasModel, enabled, disposed, numProviders, currentRequest,
                   requests, syncedRanges, appliedBy, cmd>>

\* two single-line ranges that neither overlap nor touch
Apart(r, q) == r.sl # q.sl \/ r.ec < q.sc \/ q.ec < r.sc

\* Lines 142-148: the fulfilment callback of request id with `value`.
Fulfilled(id, value) ==
    LET ranges == IF value.kind = "ranges" THEN value.ranges ELSE <<>>
        decos  == IF ~hasModel THEN <<>>
                  ELSE [i \in 1..Len(ranges) |-> validateRange(doc, ranges[i])]
    IN  /\ syncedRanges' = ranges
        /\ currentDecorations' = decos
        /\ appliedBy' = id
        /\ lockstep' = /\ Len(decos) >= 2
                       /\ Apart(decos[1], decos[2])
                       /\ TextOf(doc, decos[1]) # <<>>
                       /\ TextOf(doc, decos[1]) = TextOf(doc, decos[2])

\* The outer promise of a request whose run went to `r`: a pending one settles
\* with the run; a cancelled one stays cancelled.  The value of a run that
\* ended is handed to the callback and not kept.
Settle(req, r) ==
    [req EXCEPT !.run = [r EXCEPT !.value = NoResult],
                !.st = IF req.st # "pending" THEN req.st
                       ELSE IF r.phase = "resolved" THEN "fulfilled"
                       ELSE IF r.phase = "rejected" THEN "rejected"
                       ELSE "pending"]

\* what follows a step of request id's run to r: lines 142-149
Completion(id, r) ==
    /\ requests' = [requests EXCEPT ![id] = Settle(requests[id], r)]
    /\ last' = Event("settle")
    /\ IF requests[id].st = "pending" /\ r.phase = "resolved"
       THEN Fulfilled(id, r.value)
       ELSE UNCHANGED <<syncedRanges, currentDecorations, appliedBy, lockstep>>
    /\ UNCHANGED <<doc, hasModel, enabled, disposed, numProviders,
                   currentRequest, nEdits, cmd>>

\* The provider a request awaits settles; the run goes on to its next provider
\* (which may throw when called) or ends.
ProviderSettles(id, outcome, throwsNext) ==
    /\ requests[id].st # "unused"
    /\ requests[id].run.phase = "await"
    /\ Completion(id, ProviderSettled(requests[id].run, outcome, throwsNext))

\* A run over no providers resolved at once (with null); its callbacks run in
\* a later microtask.
EmptyRunSettles(id) ==
    /\ requests[id].st = "pending"
    /\ requests[id].run.phase = "resolved"
    /\ Completion(id, requests[id].run)

Next ==
    \/ \E fresh \in BOOLEAN : ChangeModel(fresh)
    \/ ChangeConfiguration
    \/ ChangeCursorPosition
    \/ \E n \in 0..MaxProviders : ChangeRegistry(n)
    \/ \E detach \in BOOLEAN : Dispose(detach)
    \/ \E changes \in KeyEvents(doc) : nEdits < MaxEdits /\ ChangeModelContent(changes)
    \/ \E id \in 1..MaxRequests, outcome \in FewOutcomes, throwsNext \in BOOLEAN :
          ProviderSettles(id, outcome, throwsNext)
    \/ \E id \in 1..MaxRequests : EmptyRunSettles(id)

Spec == Init /\ [][Next]_vars

\* The same without the content changes, which leave the requests as they are.
NextRequests ==
    \/ \E fresh \in BOOLEAN : ChangeModel(fresh)
    \/ ChangeConfiguration
    \/ ChangeCursorPosition
    \/ \E n \in 0..MaxProviders : ChangeRegistry(n)
    \/ \E detach \in BOOLEAN : Dispose(detach)
    \/ \E id \in 1..MaxRequests, outcome \in FewOutcomes, throwsNext \in BOOLEAN :
          ProviderSettles(id, outcome, throwsNext)
    \/ \E id \in 1..MaxRequests : EmptyRunSettles(id)

SpecRequests == Init /\ [][NextRequests]_vars

\* ------------------------------------------------------------- an editing session

\* The editor has a model, the feature is on and one provider is registered;
\* the user moves the cursor once and types, the provider answers.
InitEdit == Init /\ hasModel /\ enabled /\ numProviders = 1

NextEdit ==
    \/ currentRequest = 0 /\ ChangeCursorPosition
    \/ \E changes \in UserEvents(doc) : nEdits < MaxTyped /\ ChangeModelContent(changes)
    \/ \E id \in 1..MaxRequests, outcome \in Outcomes : ProviderSettles(id, outcome, FALSE)

SpecEdit == InitEdit /\ [][NextEdit]_vars

\* ------------------------------------------------------------- the resolver command

Thrown == [kind |-> "throw", ranges |-> <<>>]

\* Line 166: _executeRenameOnTypeProvider runs getOnTypeRenameRanges over the
\* registered providers; cmd.results logs what each called provider did.
InitResolver ==
    /\ Init
    /\ hasModel /\ enabled /\ numProviders = 0

CmdStart(n, throws) ==
    /\ cmd.run.phase = "start"
    /\ cmd.results = <<>>
    /\ cmd.run.n = 0
    /\ cmd' = [run |-> getOnTypeRenameRanges(n, throws),
               results |-> IF throws /\ n > 0 THEN <<Thrown>> ELSE <<>>]
    /\ UNCHANGED <<doc, hasModel, enabled, disposed, numProviders,
                   currentRequest, requests, syncedRanges, currentDecorations,
                   nEdits, last, appliedBy, lockstep>>

CmdProviderSettles(outcome, throwsNext) ==
    /\ cmd.run.phase = "await"
    /\ LET r == ProviderSettled(cmd.run, outcome, throwsNext)
       IN  cmd' = [run |-> r,
                   results |-> IF Len(r.calls) > Len(cmd.run.calls) /\ r.phase # "await"
                               THEN cmd.results \o <<outcome, Thrown>>
                               ELSE Append(cmd.results, outcome)]
    /\ UNCHANGED <<doc, hasModel, enabled, disposed, numProviders,
                   currentRequest, requests, syncedRanges, currentDecorations,
                   nEdits, last, appliedBy, lockstep>>

NextResolver ==
    \/ \E n \in 0..MaxCmdProviders, throws \in BOOLEAN : CmdStart(n, throws)
    \/ \E outcome \in Outcomes, throwsNext \in BOOLEAN : CmdProviderSettles(outcome, throwsNext)

SpecResolver == InitResolver /\ [][NextResolver]_vars

\* ------------------------------------------------------------- cancelled resolutions

\* The editor has a model and several providers are registered; resolutions
\* are started and cancelled while their providers are awaited.
InitCancel ==
    /\ hasModel = TRUE
    /\ doc = InitialDoc
    /\ enabled \in BOOLEAN
    /\ disposed = FALSE
    /\ numProviders = MaxAwaited
    /\ currentRequest = 0
    /\ requests = [id \in 1..MaxRequests |-> Unused]
    /\ syncedRanges = <<>>
    /\ currentDecorations = <<>>
    /\ nEdits = 0
    /\ last = Event("init")
    /\ appliedBy = 0
    /\ lockstep = FALSE
    /\ cmd = [run |-> NewRun(0), results |-> <<>>]

NextCancel ==
    \/ \E fresh \in BOOLEAN : ChangeModel(fresh)
    \/ ChangeConfiguration
    \/ ChangeCursorPosition
    \/ \E id \in 1..MaxRequests, outcome \in FewOutcomes, throwsNext \in BOOLEAN :
          ProviderSettles(id, outcome, throwsNext)

SpecCancel == InitCancel /\ [][NextCancel]_vars

\* ------------------------------------------------------------- properties

\* a recorded range set is decorated
Synced == Len(syncedRanges) > 0 /\ Len(currentDecorations) > 0

\* position (l, c) lies in range r, its two ends included
PointInside(l, c, r) ==
    /\ r.sl < l \/ (r.sl = l /\ r.sc <= c)
    /\ l < r.el \/ (l = r.el /\ c <= r.ec)

\* a single change that removes nothing
PureInsertion(changes) == Len(changes) = 1 /\ changes[1].rangeLength = 0

\* an event that is not a single pure insertion inside the primary range
Ineligible(changes, synced) ==
    \/ ~PureInsertion(changes)
    \/ /\ Len(synced) > 0
       /\ ~PointInside(changes[1].range.sl, changes[1].range.sc, synced[1])

\* a single pure insertion inside the primary range
Eligible(changes, synced) ==
    /\ PureInsertion(changes)
    /\ Len(synced) > 0
    /\ PointInside(changes[1].range.sl, changes[1].range.sc, synced[1])

\* C1: while the user has typed only single characters inside the primary
\* occurrence since two separate ranges of equal text were recorded, the
\* mirror occurrence reads the same as the primary occurrence.
C1_Lockstep ==
    lockstep =>
        TextOf(doc, currentDecorations[1]) = TextOf(doc, currentDecorations[2])

\* C2: in a Synced state with a mirror range apart from the primary range,
\* after a single pure insertion of text T inside the primary range at offset
\* k from its start, the controller has applied exactly one change: the
\* insertion of T at the mirror range's start plus k, the mirror range's
\* start being where the user's change left it.
C2_MirroredAt ==
    (/\ last.kind = "edit"
     /\ Len(syncedRanges) >= 2
     /\ Apart(syncedRanges[1], syncedRanges[2])
     /\ Eligible(last.changes, syncedRanges))
    => LET ch     == last.changes[1]
           k      == ch.range.sc - syncedRanges[1].sc
           mirror == TrackRange(syncedRanges[2], ch)
       IN  /\ Len(last.applied) = 1
           /\ last.applied[1].range = Rng(mirror.sl, mirror.sc + k, mirror.sl, mirror.sc + k)
           /\ last.applied[1].rangeLength = 0
           /\ last.applied[1].text = ch.text

\* C3: a request that was pending when a later resolution started is
\* cancelled and its result is never the one written to the range set and
\* the decorations; once the request held in the slot is fulfilled, the
\* state holds its result.
C3_StaleNeverApplied ==
    /\ \A id \in 1..MaxRequests :
          requests[id].superseded =>
              requests[id].st = "canceled" /\ appliedBy # id
    /\ (currentRequest # 0 /\ requests[currentRequest].st = "fulfilled")
          => appliedBy = currentRequest

\* C3 witness: the run of a superseded request has ended with a result, and
\* the state holds the result of the request that replaced it.
C3_Witness ==
    \E id \in 1..MaxRequests :
        /\ requests[id].superseded
        /\ requests[id].run.phase = "resolved"
        /\ Len(requests[id].run.calls) > 0
        /\ currentRequest # 0 /\ currentRequest # id
        /\ appliedBy = currentRequest
        /\ Synced

\* C4: in a Synced state, a content-change event that is not a single pure
\* insertion inside the primary range clears the recorded range set and the
\* decorations and starts no resolution.
C4_IneligibleClears ==
    [][\A ch \in UserEvents(doc) :
          (/\ Synced
           /\ Len(syncedRanges) >= 2
           /\ Ineligible(ch, syncedRanges)
           /\ ChangeModelContent(ch))
          => (syncedRanges' = <<>> /\ currentDecorations' = <<>>
              /\ requests' = requests)]_vars

\* C5: for a content-change event that has more than one change, or removes a
\* character, or inserts outside the primary range, the controller applies no
\* change of its own: the buffer afterwards is the buffer with the user's
\* changes and nothing else.
C5_IneligibleNotMirrored ==
    [][\A ch \in UserEvents(doc) :
          (Ineligible(ch, syncedRanges) /\ ChangeModelContent(ch))
          => (doc' = ApplyChanges(doc, ch) /\ last'.applied = <<>>)]_vars

\* C5 witness: with two ranges recorded, the user typed on the primary's line
\* outside the primary range and the controller applied nothing.
C5_Witness ==
    /\ last.kind = "edit"
    /\ Len(syncedRanges) >= 2
    /\ PureInsertion(last.changes)
    /\ last.changes[1].range.sl = syncedRanges[1].sl
    /\ ~PointInside(last.changes[1].range.sl, last.changes[1].range.sc, syncedRanges[1])
    /\ last.applied = <<>>

\* C6: while the feature is disabled the decorations are empty, no range set
\* is recorded and no resolution is pending.
C6_DisabledIsIdle ==
    ~enabled =>
        /\ currentDecorations = <<>>
        /\ syncedRanges = <<>>
        /\ \A id \in 1..MaxRequests : requests[id].st # "pending"

\* C7: right after a model change the recorded range set and the decorations
\* are empty, and the only resolution that can still be applied is one
\* started against the new model and held in the slot.
C7_ModelChangeClears ==
    last.kind = "model" =>
        /\ syncedRanges = <<>>
        /\ currentDecorations = <<>>
        /\ \A id \in 1..MaxRequests :
              requests[id].st = "pending" =>
                  id = currentRequest /\ requests[id].current

\* the providers that handed back a non-empty array, by place in the log
NonEmptyAt == {i \in 1..Len(cmd.results) : isNonEmptyArray(cmd.results[i])}

\* the providers are called one at a time in score order: 1, 2, ...
CalledInOrder ==
    /\ cmd.run.calls = [i \in 1..Len(cmd.run.calls) |-> i]
    /\ Len(cmd.run.calls) <= cmd.run.n
    /\ Len(cmd.run.calls) - Len(cmd.results) \in {0, 1}
    /\ Len(cmd.run.calls) - Len(cmd.results) = 1 <=> cmd.run.phase = "await"

\* C8: the resolver calls the providers one at a time in score order; no
\* provider is called after one that handed back a non-empty array, and a run
\* that met such a provider resolved with that provider's array.
C8_ShortCircuit ==
    /\ CalledInOrder
    /\ \A i \in NonEmptyAt :
          /\ i = Len(cmd.run.calls)
          /\ cmd.run.phase = "resolved"
          /\ cmd.run.value = cmd.results[i]
    /\ (cmd.run.phase = "resolved" /\ NonEmptyAt = {}) => cmd.run.value = NoResult

\* C8 witness: of three providers the second handed back a non-empty array
\* after the first handed back an empty one; the third was not called.
C8_Witness ==
    /\ cmd.run.n = 3
    /\ cmd.run.phase = "resolved"
    /\ cmd.run.calls = <<1, 2>>
    /\ cmd.results[1] = Ranges(<<>>)
    /\ isNonEmptyArray(cmd.results[2])
    /\ cmd.run.value = cmd.results[2]

\* C9: when every provider handed back no result or an empty array, the run
\* called each of them once and resolved with no result.
C9_NoUsableProvider ==
    (/\ cmd.run.phase \notin {"start", "await"}
     /\ \A i \in 1..Len(cmd.results) : cmd.results[i] \in {NoResult, Ranges(<<>>)})
    => /\ cmd.run.phase = "resolved"
       /\ cmd.run.value = NoResult
       /\ cmd.run.calls = [i \in 1..cmd.run.n |-> i]
       /\ Len(cmd.results) = cmd.run.n

\* C9 witness: three providers, one answering null and two an empty array.
C9_Witness ==
    /\ cmd.run.n = 3
    /\ cmd.run.phase = "resolved"
    /\ cmd.results = <<Ranges(<<>>), NoResult, Ranges(<<>>)>>
    /\ cmd.run.value = NoResult

\* C9 witness of the other case: no provider is registered.
C9_WitnessNone == cmd.run.n = 0 /\ cmd.run.phase = "resolved"

\* the providers that raised an error: a rejected promise or a thrown exception
Failed == {i \in 1..Len(cmd.results) : cmd.results[i].kind \in {"reject", "throw"}}

\* C10: every error a provider raised is reported to the error sink, the run
\* goes on with the next provider, and the run itself neither throws nor
\* rejects.
C10_FailureIsolated ==
    /\ cmd.run.reported = Cardinality(Failed)
    /\ cmd.run.phase \notin {"threw", "rejected"}
    /\ \A i \in Failed :
          i < cmd.run.n => Len(cmd.run.calls) > i

\* C10 for providers that fail by a rejected promise only: reported and
\* passed over.
C10_RejectionIsolated ==
    \A i \in 1..Len(cmd.results) :
        cmd.results[i].kind = "reject" =>
            /\ cmd.run.reported >= 1
            /\ i < cmd.run.n => Len(cmd.run.calls) > i

\* C11: once a request is cancelled while its run awaits a provider, the run
\* calls no further provider: when the awaited provider settles, the list of
\* providers called stays as it is.
C11_CancelStopsResolver ==
    [][\A id \in 1..MaxRequests :
          (requests[id].st = "canceled" /\ requests[id].run.phase = "await")
          => requests'[id].run.calls = requests[id].run.calls]_vars

\* the requests whose CancelablePromise is neither settled nor cancelled
Pending == {id \in 1..MaxRequests : requests[id].st = "pending"}

\* C12: at most one request is pending, and a pending request is the one held
\* in the slot: whatever was held before a resolution started was cancelled.
C12_SinglePending ==
    /\ Cardinality(Pending) <= 1
    /\ \A id \in Pending : id = currentRequest

\* C12 witness: a second resolution was started while the first was pending;
\* the first is cancelled, the second is pending in the slot.
C12_Witness ==
    /\ Cardinality(Started) = 2
    /\ currentRequest \in Pending
    /\ \E id \in Started :
          id # currentRequest /\ requests[id].superseded /\ requests[id].st = "canceled"

\* the number of characters range r covers in buffer d
Width(d, r) == getOffsetAt(d, r.el, r.ec) - getOffsetAt(d, r.sl, r.sc)

\* C13: after a single pure insertion of n characters inside the primary range
\* of a Synced state with separate ranges, the state is Synced and every
\* recorded range covers n characters more than before.
C13_RangesTrackEdit ==
    [][\A ch \in UserEvents(doc) :
          (/\ Synced
           /\ Len(syncedRanges) >= 2
           /\ Apart(syncedRanges[1], syncedRanges[2])
           /\ Eligible(ch, syncedRanges)
           /\ ChangeModelContent(ch))
          => /\ Len(syncedRanges') = Len(syncedRanges)
             /\ Len(currentDecorations') > 0
             /\ \A i \in 1..Len(syncedRanges) :
                   Width(doc', syncedRanges'[i])
                       = Width(doc, syncedRanges[i]) + Len(ch[1].text)]_vars

\* C14: with three or more ranges recorded, after a single pure insertion
\* inside the primary range at offset k the controller has applied one
\* insertion of the same text per mirror range, at that range's start plus k.
C14_AllMirrorsEdited ==
    (/\ last.kind = "edit"
     /\ Len(syncedRanges) >= 3
     /\ Eligible(last.changes, syncedRanges))
    => LET ch == last.changes[1]
           k  == ch.range.sc - syncedRanges[1].sc
           StartAt(i, j) ==
               TrackAll(<<syncedRanges[i]>>, <<ch>> \o SubSeq(last.applied, 1, j - 1))[1].sc
       IN  /\ Len(last.applied) = Len(syncedRanges) - 1
           /\ \A i \in 2..Len(syncedRanges) :
                 \E j \in 1..Len(last.applied) :
                    /\ last.applied[j].text = ch.text
                    /\ last.applied[j].rangeLength = 0
                    /\ last.applied[j].range.sl = syncedRanges[i].sl
                    /\ last.applied[j].range.sc = StartAt(i, j) + k

\* C15: a content change that arrives while no decorations are held (the
\* feature was disabled, the model changed, a resolution gave no result, or
\* none has completed yet) makes the controller apply no change, and the
\* handler does not throw.
C15_NoMirrorOutsideSynced ==
    [][\A ch \in KeyEvents(doc) :
          (currentDecorations = <<>> /\ ChangeModelContent(ch))
          => (last'.applied = <<>> /\ ~last'.threw)]_vars

\* C16: right after a cursor move that arrived while the feature is disabled,
\* no resolution is pending and no decorations are held.
C16_CursorWhileDisabled ==
    (last.kind = "cursor" /\ ~enabled) =>
        /\ Pending = {}
        /\ currentDecorations = <<>>

\* C17: between handlers the controller holds as many decoration handles as
\* ranges are recorded.
C17_DecorationsMatchRanges == Len(currentDecorations) = Len(syncedRanges)

\* C18: with no range or a single range recorded, the handler of a single
\* pure insertion applies no change and does not throw.
C18_NoUsableMirror ==
    (/\ last.kind = "edit"
     /\ Len(syncedRanges) <= 1
     /\ PureInsertion(last.changes))
    => (last.applied = <<>> /\ ~last.threw)

\* position (l1, c1) is at or before position (l2, c2)
AtOrBefore(l1, c1, l2, c2) == l1 < l2 \/ (l1 = l2 /\ c1 <= c2)

\* two ranges that share no character (they may touch)
Disjoint(r, q) ==
    \/ AtOrBefore(r.el, r.ec, q.sl, q.sc)
    \/ AtOrBefore(q.el, q.ec, r.sl, r.sc)

PairwiseDisjoint(rs) ==
    \A i, j \in 1..Len(rs) : i # j => Disjoint(rs[i], rs[j])

\* C19: with pairwise disjoint ranges recorded, the change the controller
\* applies for a user's insertion is not itself mirrored: the handler applied
\* exactly one change, and that change is not within the primary range.
C19_NoFeedback ==
    (/\ last.kind = "edit"
     /\ PairwiseDisjoint(syncedRanges)
     /\ last.applied # <<>>)
    => /\ Len(last.applied) = 1
       /\ ~ShouldMirror(<<last.applied[1]>>, syncedRanges)

\* C19 for ranges that do not touch either
C19_NoFeedbackApart ==
    (/\ last.kind = "edit"
     /\ Len(syncedRanges) >= 2
     /\ \A i, j \in 1..Len(syncedRanges) : i # j => Apart(syncedRanges[i], syncedRanges[j])
     /\ last.applied # <<>>)
    => /\ Len(last.applied) = 1
       /\ ~ShouldMirror(<<last.applied[1]>>, syncedRanges)

\* C20: once dispose() has run, no step adds a decoration or writes the
\* recorded range set.
C20_QuietAfterDispose ==
    [][disposed =>
          /\ currentDecorations' = <<>>
          /\ syncedRanges' = syncedRanges
          /\ appliedBy' = appliedBy]_vars

====
